---- MODULE Spec2Model ----
(***************************************************************************)
(* Radar chart of benchmark scores: label wrapping, icon placement and the *)
(* persisted per-(kit, table) selection of src/composables/useChart.js,    *)
(* src/utils/storage.js and src/components/RadarChart.vue.                 *)
(*                                                                         *)
(* The specifications share the variables below:                           *)
(*   SpecWrap    wrapLabel applied to bounded labels, widths and line caps;*)
(*   SpecPlace   one label of a draw pass of pointLabelImagesPlugin;       *)
(*   Spec        the useChart composable driven by the RadarChart view;    *)
(*   SpecStorage calls of storage.js on a localStorage with a clock;       *)
(*   SpecRank    the ranking of baseDatasets applied to bounded tables;    *)
(*   SpecColors  generateColors applied to bounded name lists;             *)
(*   SpecImages  the icon cache, its loads and the draw passes.            *)
(* A specification holds the variables of the others at their idle values. *)
(***************************************************************************)
EXTENDS Integers, Sequences, FiniteSets, TLC

VARIABLES
    \* ---- wrapLabel call ----
    inLabel,        \* the label string, a sequence of characters
    inMaxWidth,     \* maxWidth argument
    inMaxLines,     \* maxLines argument
    outLines,       \* returned array of lines
    wrapPc,         \* "idle" | "ready" | "done"
    \* ---- one label of afterDraw ----
    geo,            \* chart geometry and label box read by the draw pass
    placed,         \* what the pass computed for the label
    placePc,        \* "idle" | "ready" | "placed"
    \* ---- useChart ----
    selectedKit,    \* radio group "ONT-DRS Kit"
    selectedCsv,    \* radio group "RNA Modifications"
    csvData,        \* currentCsvData: the table shown and what it was loaded for
    modelNames,     \* ref modelNames
    selectedModels, \* ref selectedModels
    storage,        \* localStorage: key -> stored string
    now,            \* new Date().getTime()
    \* ---- calls of storage.js ----
    call,           \* the last call: its arguments, result and effect
    lastWrite,      \* key -> the last setStoredWithExpiry on it
    \* ---- ranking of baseDatasets ----
    sortData,       \* csvData.value.sortData: rows in encounter order
    ranked,         \* sortedModelNames
    rankPc,         \* "idle" | "ready" | "done"
    \* ---- generateColors ----
    colorNames,     \* the modelNames argument
    colors,         \* the returned array of colours
    colorPc,        \* "idle" | "ready" | "done"
    \* ---- icon cache and draw passes ----
    chartLabels,    \* chart.data.labels of the table shown
    imageCache,     \* imageCache.value: URL -> state of the cached Image
    loadsStarted,   \* URL -> number of times img.src was assigned
    seenAgain,      \* URLs preloadImages met when they were already cached
    lastDraw        \* what the last afterDraw pass did

wrapVars  == <<inLabel, inMaxWidth, inMaxLines, outLines, wrapPc>>
placeVars == <<geo, placed, placePc>>
chartVars == <<selectedKit, selectedCsv, csvData, modelNames, selectedModels, storage, now>>
callVars  == <<call, lastWrite>>
rankVars  == <<sortData, ranked, rankPc>>
colorVars == <<colorNames, colors, colorPc>>
imageVars == <<chartLabels, imageCache, loadsStarted, seenAgain, lastDraw>>
vars      == <<inLabel, inMaxWidth, inMaxLines, outLines, wrapPc,
               geo, placed, placePc,
               selectedKit, selectedCsv, csvData, modelNames, selectedModels, storage, now,
               call, lastWrite, sortData, ranked, rankPc, colorNames, colors, colorPc,
               chartLabels, imageCache, loadsStarted, seenAgain, lastDraw>>

Null == "null"

\* currentCsvData.value is null: no table is shown
NoData == [kit |-> Null, csv |-> Null, table |-> Null]

Max(a, b) == IF a >= b THEN a ELSE b
Min(a, b) == IF a <= b THEN a ELSE b
Abs(a)    == IF a >= 0 THEN a ELSE -a

(***************************************************************************)
(* Strings.  A string is a sequence of characters; only the space matters  *)
(* to the code, so every other character is "a".                           *)
(***************************************************************************)
SP == " "

Repeat(n) == [i \in 1..n |-> "a"]

\* String.prototype.split(' '): "" gives [""], n spaces give n + 1 words.
RECURSIVE SplitFrom(_, _, _)
SplitFrom(s, i, cur) ==
    IF i > Len(s) THEN <<cur>>
    ELSE IF s[i] = SP THEN <<cur>> \o SplitFrom(s, i + 1, <<>>)
    ELSE SplitFrom(s, i + 1, Append(cur, s[i]))

Split(s) == SplitFrom(s, 1, <<>>)

\* Array.prototype.join(' ')
RECURSIVE Join(_)
Join(ws) ==
    IF Len(ws) = 0 THEN <<>>
    ELSE IF Len(ws) = 1 THEN ws[1]
    ELSE ws[1] \o <<SP>> \o Join(Tail(ws))

\* Array.prototype.slice(from) and slice(0, to), 0-based as in the code
SliceTo(ws, to)     == SubSeq(ws, 1, to)

\* a slice(from) that starts one word late
SliceFrom_skipWord(ws, from) == SubSeq(ws, from + 2, Len(ws))

SliceFrom(ws, from) == SubSeq(ws, from + 1, Len(ws))

(***************************************************************************)
(* Infinity is passed as a width and used as the initial smallest          *)
(* difference; lengths and differences are never negative, so -1 is free   *)
(* to stand for it.                                                        *)
(***************************************************************************)
Infinity == -1

NumLeq(n, w) == w = Infinity \/ n <= w     \* n <= w for finite n
NumLt(n, w)  == w = Infinity \/ n < w      \* n <  w for finite n
NumGt(n, w)  == ~NumLeq(n, w)              \* n >  w for finite n

custom_maxWidth == 15
DefaultMaxLines == 3

(***************************************************************************)
(* greedyWrap(words, maxWidth)                                             *)
(***************************************************************************)
RECURSIVE greedyLoop(_, _, _, _, _)
greedyLoop(words, i, currentLine, lines, maxWidth) ==
    IF i > Len(words) THEN Append(lines, currentLine)
    ELSE IF Len(currentLine \o <<SP>> \o words[i]) > maxWidth
         THEN greedyLoop(words, i + 1, words[i], Append(lines, currentLine), maxWidth)
         ELSE greedyLoop(words, i + 1, currentLine \o <<SP>> \o words[i], lines, maxWidth)

greedyWrap(words, maxWidth) ==
    IF Len(words) = 0 THEN << <<>> >>
    ELSE greedyLoop(words, 2, words[1], <<>>, maxWidth)

(***************************************************************************)
(* performIdealSplit(label, maxWidth, targetLines)                         *)
(*                                                                         *)
(* idealLength = totalLength / targetLines is a fraction; the loop         *)
(* compares |currentLength - idealLength| scaled by targetLines, that is   *)
(* |currentLength * targetLines - totalLength|, which orders the same.     *)
(* The loop state is [best, diff, cur]; i is the 0-based index of the code.*)
(***************************************************************************)
RECURSIVE splitLoop(_, _, _, _, _)
splitLoop(words, i, st, totalLength, targetLines) ==
    IF i >= Len(words) - 1 THEN st
    ELSE LET currentLength == st.cur + Len(words[i + 1]) + 1
             diff == Abs(currentLength * targetLines - totalLength)
         IN  IF NumLt(diff, st.diff)
             THEN splitLoop(words, i + 1,
                            [best |-> i + 1, diff |-> diff, cur |-> currentLength],
                            totalLength, targetLines)
             ELSE splitLoop(words, i + 1,
                            [best |-> st.best, diff |-> st.diff, cur |-> currentLength],
                            totalLength, targetLines)

bestSplitIndex(words, totalLength, targetLines) ==
    LET found == splitLoop(words, 0, [best |-> 0, diff |-> Infinity, cur |-> 0],
                           totalLength, targetLines).best
    IN  IF found = 0 THEN 1 ELSE found

RECURSIVE performIdealSplit(_, _, _)
performIdealSplit(label, maxWidth, targetLines) ==
    IF Len(label) = 0 THEN << <<>> >>
    ELSE IF targetLines <= 1 \/ NumLeq(Len(label), maxWidth) THEN <<label>>
    ELSE LET words == Split(label)
         IN  IF Len(words) <= 1 THEN <<label>>
             ELSE LET best      == bestSplitIndex(words, Len(label), targetLines)
                      firstLine == Join(SliceTo(words, best))
                      rest      == Join(SliceFrom(words, best))
                  IN  IF NumGt(Len(rest), maxWidth) /\ targetLines > 1
                      THEN <<firstLine>> \o performIdealSplit(rest, maxWidth, targetLines - 1)
                      ELSE <<firstLine, rest>>

(***************************************************************************)
(* wrapLabel(label, maxWidth, maxLines = 3)                                *)
(***************************************************************************)
\* wrapLabel without the maxLines test: always the ideal split at the greedy count
wrapLabel_uncapped(label, maxWidth, maxLines) ==
    IF Len(label) = 0 THEN << <<>> >>
    ELSE IF Len(label) <= maxWidth THEN <<label>>
    ELSE LET words == Split(label)
         IN  IF Len(words) <= 1 THEN <<label>>
             ELSE performIdealSplit(label, maxWidth, Len(greedyWrap(words, maxWidth)))

wrapLabel(label, maxWidth, maxLines) ==
    IF Len(label) = 0 THEN << <<>> >>
    ELSE IF Len(label) <= maxWidth THEN <<label>>
    ELSE LET words == Split(label)
         IN  IF Len(words) <= 1 THEN <<label>>
             ELSE LET greedyLinesCount == Len(greedyWrap(words, maxWidth))
                  IN  IF greedyLinesCount <= maxLines
                      THEN performIdealSplit(label, maxWidth, greedyLinesCount)
                      ELSE performIdealSplit(label, Infinity, maxLines)

(***************************************************************************)
(* SpecWrap: wrapLabel on bounded inputs.  A label is any string of up to  *)
(* MaxWords words of up to MaxWordLen characters; words may be empty       *)
(* (leading, trailing and consecutive spaces).                             *)
(***************************************************************************)
MaxWords   == 3
MaxWordLen == 6
MaxWidthIn == 6
MaxLinesIn == 3

WordLenSeqs == UNION { [1..n -> 0..MaxWordLen] : n \in 1..MaxWords }

LabelOf(ws) == Join([i \in 1..Len(ws) |-> Repeat(ws[i])])

WrapIdle  == /\ inLabel = <<>> /\ inMaxWidth = 0 /\ inMaxLines = 0
             /\ outLines = <<>> /\ wrapPc = "idle"
PlaceIdle == geo = Null /\ placed = Null /\ placePc = "idle"
ViewIdle  == /\ selectedKit = Null /\ selectedCsv = Null /\ csvData = NoData
             /\ modelNames = <<>> /\ selectedModels = <<>>
ChartIdle == ViewIdle /\ storage = Null /\ now = 0
CallIdle  == call = Null /\ lastWrite = Null
RankIdle  == sortData = <<>> /\ ranked = <<>> /\ rankPc = "idle"
ColorIdle == colorNames = <<>> /\ colors = <<>> /\ colorPc = "idle"
ImageIdle == /\ chartLabels = <<>> /\ imageCache = Null
             /\ loadsStarted = Null /\ seenAgain = {} /\ lastDraw = Null

InitWrap ==
    /\ \E ws \in WordLenSeqs : inLabel = LabelOf(ws)
    /\ inMaxWidth = 0
    /\ inMaxLines = 0
    /\ outLines = <<>>
    /\ wrapPc = "ready"
    /\ PlaceIdle
    /\ ChartIdle
    /\ CallIdle /\ RankIdle /\ ColorIdle /\ ImageIdle

\* a direct call wrapLabel(label, maxWidth, maxLines)
WrapCall ==
    /\ wrapPc = "ready"
    /\ \E w \in 1..MaxWidthIn, l \in 1..MaxLinesIn :
          /\ inMaxWidth' = w
          /\ inMaxLines' = l
          /\ outLines' = wrapLabel(inLabel, w, l)
    /\ wrapPc' = "done"
    /\ UNCHANGED <<inLabel, placeVars, chartVars, callVars, rankVars, colorVars, imageVars>>

\* pointLabels.callback and afterDraw: wrapLabel(label, custom_maxWidth)
LabelCallback ==
    /\ wrapPc = "ready"
    /\ inMaxWidth' = custom_maxWidth
    /\ inMaxLines' = DefaultMaxLines
    /\ outLines' = wrapLabel(inLabel, custom_maxWidth, DefaultMaxLines)
    /\ wrapPc' = "done"
    /\ UNCHANGED <<inLabel, placeVars, chartVars, callVars, rankVars, colorVars, imageVars>>

NextWrap == WrapCall \/ LabelCallback

SpecWrap == InitWrap /\ [][NextWrap]_vars

\* ---- vocabulary of the wrapping claims ----
WrapDone    == wrapPc = "done"
InWords     == Split(inLabel)
GreedyCount == Len(greedyWrap(InWords, inMaxWidth))
\* label longer than maxWidth and of at least two words: the greedy pass runs
GreedyRuns  == Len(inLabel) > inMaxWidth /\ Len(InWords) >= 2
LinesJoinToLabel == Join(outLines) = inLabel
\* |len(line1) - len(line2)| of the split after the first k words
SplitImbalance(k) ==
    Abs(Len(Join(SliceTo(InWords, k))) - Len(Join(SliceFrom(InWords, k))))

\* C1: wrapLabel(label, maxWidth, maxLines) returns at most maxLines lines,
\* for every label, maxWidth >= 1 and maxLines >= 1.
C1_AtMostMaxLines == WrapDone => Len(outLines) <= inMaxLines

\* a label over the line budget under greedy wrapping has been wrapped
C1_Witness == WrapDone /\ GreedyRuns /\ GreedyCount > inMaxLines /\ inMaxLines >= 2

\* C2: when the greedy pass needs more than maxLines lines (label longer than
\* maxWidth, at least maxLines words), wrapLabel returns exactly maxLines
\* lines split at word boundaries.
C2_ForcedSplitHasMaxLines ==
    (WrapDone /\ GreedyRuns /\ Len(InWords) >= inMaxLines /\ GreedyCount > inMaxLines)
        => (Len(outLines) = inMaxLines /\ LinesJoinToLabel)

\* C3: when no word is longer than maxWidth and the greedy line count is within
\* maxLines, every returned line has at most maxWidth characters.
C3_LinesWithinWidth ==
    (WrapDone /\ GreedyRuns /\ GreedyCount <= inMaxLines
             /\ \A i \in 1..Len(InWords) : Len(InWords[i]) <= inMaxWidth)
        => \A j \in 1..Len(outLines) : Len(outLines[j]) <= inMaxWidth

\* C4: when the greedy pass yields exactly 2 lines (and maxLines allows 2), the
\* two returned lines are a word-boundary split of the label that minimises
\* |len(line1) - len(line2)| over all word-boundary splits.
C4_TwoLineSplitIsBalanced ==
    (WrapDone /\ GreedyRuns /\ GreedyCount = 2 /\ inMaxLines >= 2)
        => /\ Len(outLines) = 2
           /\ LinesJoinToLabel
           /\ \A k \in 1..(Len(InWords) - 1) :
                 Abs(Len(outLines[1]) - Len(outLines[2])) <= SplitImbalance(k)

\* C5: when the greedy pass yields g <= maxLines lines (label longer than
\* maxWidth, at least two words), wrapLabel returns exactly g lines that
\* re-split the original label: joined by single spaces they give it back.
C5_ExactlyGreedyCount ==
    (WrapDone /\ GreedyRuns /\ GreedyCount <= inMaxLines)
        => (Len(outLines) = GreedyCount /\ LinesJoinToLabel)

(***************************************************************************)
(* pointLabelImagesPlugin.afterDraw, one label.                            *)
(*                                                                         *)
(* Numbers.  Pixel inputs are integers.  A direction is kept as the pair   *)
(* <<dx, dy>> handed to Math.atan2(dy, dx); its cosine and sine are        *)
(* fixed-point with three decimals (Unit = 1.000), and so are the sizes    *)
(* and positions derived from them, truncated toward zero.                 *)
(***************************************************************************)
Unit == 1000

maxChartWidth == 1324

Sign(a) == IF a > 0 THEN 1 ELSE IF a < 0 THEN -1 ELSE 0

\* floor of the square root, by bisection on lo..hi
RECURSIVE SqrtBetween(_, _, _)
SqrtBetween(n, lo, hi) ==
    IF lo >= hi THEN lo
    ELSE LET mid == (lo + hi + 1) \div 2
         IN  IF mid * mid <= n THEN SqrtBetween(n, mid, hi)
                               ELSE SqrtBetween(n, lo, mid - 1)

Isqrt(n) == SqrtBetween(n, 0, 46340)

\* a * b / Unit, truncated toward zero
MulUnit(a, b) == Sign(a) * Sign(b) * ((Abs(a) * Abs(b)) \div Unit)

\* Math.atan2(dy, dx), kept as its direction; atan2(0, 0) is the angle 0
atan2(dy, dx) == IF dx = 0 /\ dy = 0 THEN <<1, 0>> ELSE <<dx, dy>>

\* 50 * |rad|, the length of the direction in steps of 0.02
Norm50(rad) == Isqrt((rad[1] * rad[1] + rad[2] * rad[2]) * 2500)

\* Math.cos(rad) and Math.sin(rad), three decimals
Cos(rad) == Sign(rad[1]) * ((Abs(rad[1]) * 50 * Unit) \div Norm50(rad))
Sin(rad) == Sign(rad[2]) * ((Abs(rad[2]) * 50 * Unit) \div Norm50(rad))

\* padding and imageSize of a pass, debug_chart = false (three decimals)
paddingOf(width)   == Max(10 * Unit, (width * Unit) \div 30)
imageSizeOf(width) == Max(20 * Unit, (width * Unit) \div 15)

\* fontOption.size({chart}) of chartOptions, and lineHeight = fontSize * 1.2
fontSizeOf(width)   == Max(10 * Unit, (Min(width, maxChartWidth) * Unit) \div 80)
lineHeightOf(width) == (fontSizeOf(width) * 12) \div 10

\* getTextBlockSize(lines): widest measured line, lines.length * lineHeight
getTextBlockSize(measuredWidth, lineCount, width) ==
    [maxWidth |-> measuredWidth * Unit, height |-> lineCount * lineHeightOf(width)]

\* adjustLabelPosition(x, y, rad, maxWidth, textHeight); 0.1 is Unit \div 10
adjustLabelPosition(x, y, rad, maxWidth, textHeight) ==
    [adjX |-> IF Cos(rad) > Unit \div 10 THEN x + maxWidth \div 2
              ELSE IF Cos(rad) < -(Unit \div 10) THEN x - maxWidth \div 2
              ELSE x,
     adjY |-> IF Sin(rad) > Unit \div 10 THEN y + textHeight \div 2
              ELSE IF Sin(rad) < -(Unit \div 10) THEN y + textHeight \div 2
              ELSE y]

\* the clamp without its lower bound
clampToCanvas_noFloor(limit, v) == Min(limit, v)

\* Math.max(0, Math.min(limit, v))
clampToCanvas(limit, v) == Max(0, Min(limit, v))

\* the body of the forEach for a label whose image is complete
placeIcon(g) ==
    LET x         == g.x * Unit
        y         == g.y * Unit
        centerX   == g.centerX * Unit
        centerY   == g.centerY * Unit
        imageSize == imageSizeOf(g.width)
        padding   == paddingOf(g.width)
        size      == getTextBlockSize(g.measuredWidth, g.lineCount, g.width)
        \* positions are whole and half pixels: directions are taken in half pixels
        radOrig   == atan2((y - centerY) \div (Unit \div 2),
                           (x - centerX) \div (Unit \div 2))
        adj       == adjustLabelPosition(x, y, radOrig, size.maxWidth, size.height)
        radAdj    == atan2((adj.adjY - centerY) \div (Unit \div 2),
                           (adj.adjX - centerX) \div (Unit \div 2))
        halfWidth  == size.maxWidth \div 2
        halfHeight == size.height \div 2
        offsetText == MulUnit(Abs(Cos(radAdj)), halfWidth)
                        + MulUnit(Abs(Sin(radAdj)), halfHeight)
        offset    == offsetText + imageSize \div 2 + padding
        rawX      == adj.adjX + MulUnit(Cos(radAdj), offset) - imageSize \div 2
        rawY      == adj.adjY + MulUnit(Sin(radAdj), offset) - imageSize \div 2
    IN  [radOrig |-> radOrig, adjX |-> adj.adjX, adjY |-> adj.adjY,
         imageSize |-> imageSize, rawX |-> rawX, rawY |-> rawY,
         imageX |-> clampToCanvas(g.canvasWidth * Unit - imageSize, rawX),
         imageY |-> clampToCanvas(g.canvasHeight * Unit - imageSize, rawY)]

(***************************************************************************)
(* SpecPlace: one label of one draw pass, on bounded geometry.             *)
(***************************************************************************)
ChartWidths   == {15, 300, 600}
ChartHeights  == {15, 300}
PixelRatios   == {1, 2}
TextWidths    == {40, 81}

\* anchors on the canvas: the centre, its row and column, one pixel beside
\* them, and the canvas edges
AnchorOffsets(half) == {-half, -1, 0, 1, half}

GeometriesOf(w, h) ==
    { [width |-> w, canvasWidth |-> w * r, canvasHeight |-> h * r,
       centerX |-> w \div 2, centerY |-> h \div 2,
       x |-> w \div 2 + dx, y |-> h \div 2 + dy,
       measuredWidth |-> tw, lineCount |-> n, complete |-> c] :
         r \in PixelRatios,
         dx \in AnchorOffsets(w \div 2), dy \in AnchorOffsets(h \div 2),
         tw \in TextWidths, n \in 1..DefaultMaxLines, c \in BOOLEAN }

Geometries == UNION { GeometriesOf(w, h) : w \in ChartWidths, h \in ChartHeights }

InitPlace ==
    /\ geo \in Geometries
    /\ placed = Null
    /\ placePc = "ready"
    /\ WrapIdle
    /\ ChartIdle
    /\ CallIdle /\ RankIdle /\ ColorIdle /\ ImageIdle

\* the image is missing from the cache or not complete: the label is skipped
SkipIcon ==
    /\ placePc = "ready"
    /\ ~geo.complete
    /\ placePc' = "skipped"
    /\ UNCHANGED <<geo, placed, wrapVars, chartVars, callVars, rankVars, colorVars, imageVars>>

\* the image is complete: the icon is positioned and drawn
DrawIcon ==
    /\ placePc = "ready"
    /\ geo.complete
    /\ placed' = placeIcon(geo)
    /\ placePc' = "placed"
    /\ UNCHANGED <<geo, wrapVars, chartVars, callVars, rankVars, colorVars, imageVars>>

NextPlace == SkipIcon \/ DrawIcon

SpecPlace == InitPlace /\ [][NextPlace]_vars

\* ---- vocabulary of the placement claims ----
IconPlaced == placePc = "placed"
LimitX     == geo.canvasWidth * Unit - imageSizeOf(geo.width)
LimitY     == geo.canvasHeight * Unit - imageSizeOf(geo.width)
BoxWidth   == geo.measuredWidth * Unit
BoxHeight  == geo.lineCount * lineHeightOf(geo.width)

\* C6 as stated: the icon position of a draw pass satisfies
\* 0 <= imageX <= canvasWidth - iconSize and 0 <= imageY <= canvasHeight - iconSize
\* with iconSize = max(20, chartWidth / 15), also on a canvas narrower or
\* shorter than the icon.
C6_IconInsideCanvas ==
    IconPlaced => /\ 0 <= placed.imageX /\ placed.imageX <= LimitX
                  /\ 0 <= placed.imageY /\ placed.imageY <= LimitY

\* C6 (amended): 0 <= imageX <= max(0, canvasWidth - iconSize) and
\* 0 <= imageY <= max(0, canvasHeight - iconSize); on a canvas narrower
\* (shorter) than the icon imageX (imageY) is 0.
C6_IconClamped ==
    IconPlaced => /\ 0 <= placed.imageX /\ placed.imageX <= Max(0, LimitX)
                  /\ 0 <= placed.imageY /\ placed.imageY <= Max(0, LimitY)

\* an icon projected left of the canvas and below it was pulled back onto it
C6_Witness ==
    /\ IconPlaced
    /\ LimitX >= 0 /\ LimitY >= 0
    /\ placed.rawX < 0 /\ placed.imageX = 0
    /\ placed.rawY > LimitY /\ placed.imageY = LimitY

\* C7: before the icon offset is projected the anchor (x, y) is moved by the
\* label's half extents: x + w/2 when cos > 0.1, x - w/2 when cos < -0.1,
\* y + h/2 when sin > 0.1, y - h/2 when sin < -0.1, and unchanged on an axis
\* where |cos| or |sin| <= 0.1, cos and sin being those of the anchor's angle
\* from the chart centre.
C7_AnchorMovedByHalfExtents ==
    IconPlaced =>
        LET c == Cos(placed.radOrig)
            s == Sin(placed.radOrig)
        IN  /\ placed.adjX = geo.x * Unit
                  + (IF c > Unit \div 10 THEN BoxWidth \div 2
                     ELSE IF c < -(Unit \div 10) THEN -(BoxWidth \div 2) ELSE 0)
            /\ placed.adjY = geo.y * Unit
                  + (IF s > Unit \div 10 THEN BoxHeight \div 2
                     ELSE IF s < -(Unit \div 10) THEN -(BoxHeight \div 2) ELSE 0)

(***************************************************************************)
(* Tables.  csvData.sortData is kept as the sequence of Object.entries:    *)
(* <<name, values>> in row order; a value is a number of tenths or NaN.    *)
(***************************************************************************)
NaN == [nan |-> TRUE, v |-> 0]
Num(v) == [nan |-> FALSE, v |-> v]
isNaN(val) == val.nan

Row(name, values) == [name |-> name, values |-> values]

Tables ==
    [A |-> << Row("m1",  <<Num(10), NaN, Num(5)>>),
              Row("m2",  <<Num(2), Num(3), Num(4)>>),
              Row("Max", <<Num(10), Num(10), Num(10)>>),
              Row("Min", <<Num(0), Num(0), Num(0)>>) >>,
     B |-> << Row("m3",  <<Num(1), Num(2), Num(3)>>),
              Row("m2",  <<Num(4), Num(4), NaN>>),
              Row("m4",  <<Num(8), Num(0), Num(0)>>) >>,
     C |-> << Row("Max", <<Num(10), Num(10), Num(10)>>),
              Row("Min", <<Num(0), Num(0), Num(0)>>) >>]

TableIds == DOMAIN Tables

\* name.includes('Max') || name.includes('Min'), over the names the model uses
includesMaxOrMin(name) == name \in {"Max", "Min", "ToolMax", "Minimap"}

\* values.reduce((acc, val) => acc + (isNaN(val) ? 0 : val), 0)
RECURSIVE sumOf(_)
sumOf(values) ==
    IF Len(values) = 0 THEN 0
    ELSE (IF isNaN(values[1]) THEN 0 ELSE values[1].v) + sumOf(Tail(values))

\* .filter(([name]) => !name.includes('Max') && !name.includes('Min'))
RECURSIVE filterRows(_)
filterRows(rows) ==
    IF Len(rows) = 0 THEN <<>>
    ELSE IF includesMaxOrMin(rows[1].name) THEN filterRows(Tail(rows))
    ELSE <<[name |-> rows[1].name, sum |-> sumOf(rows[1].values)]>> \o filterRows(Tail(rows))

\* an insertion that puts e before the entries of equal sum
RECURSIVE insertBySum_beforeEqual(_, _)
insertBySum_beforeEqual(sorted, e) ==
    IF Len(sorted) = 0 THEN <<e>>
    ELSE IF sorted[1].sum > e.sum THEN <<sorted[1]>> \o insertBySum_beforeEqual(Tail(sorted), e)
    ELSE <<e>> \o sorted

\* stable insertion of e into a sequence sorted by descending sum
RECURSIVE insertBySum(_, _)
insertBySum(sorted, e) ==
    IF Len(sorted) = 0 THEN <<e>>
    ELSE IF sorted[1].sum >= e.sum THEN <<sorted[1]>> \o insertBySum(Tail(sorted), e)
    ELSE <<e>> \o sorted

\* .sort((a, b) => b.sum - a.sum), a stable sort
RECURSIVE sortBySum(_)
sortBySum(entries) ==
    IF Len(entries) = 0 THEN <<>>
    ELSE insertBySum(sortBySum(SubSeq(entries, 1, Len(entries) - 1)), entries[Len(entries)])

\* modelSums.map(({ name }) => name) for the rows of sortData
sortedModelNamesOf(rows) ==
    LET modelSums == sortBySum(filterRows(rows))
    IN  [i \in 1..Len(modelSums) |-> modelSums[i].name]

\* sortedModelNames of baseDatasets for a table id
sortedModelNames(table) == sortedModelNamesOf(Tables[table])

\* the labels of baseDatasets.value: [] without csvData
datasetLabels(data) == IF data = NoData THEN <<>> ELSE sortedModelNames(data.table)

ToSet(seq) == {seq[i] : i \in 1..Len(seq)}

\* Array.prototype.filter
RECURSIVE filterIn(_, _)
filterIn(seq, keep) ==
    IF Len(seq) = 0 THEN <<>>
    ELSE IF seq[1] \in keep THEN <<seq[1]>> \o filterIn(Tail(seq), keep)
    ELSE filterIn(Tail(seq), keep)

(***************************************************************************)
(* storage.js.  A stored string is absent, unparseable text, or the JSON   *)
(* text of a document; a document is an envelope {value, expiry} or a      *)
(* legacy array.  Times are milliseconds since the page was opened.        *)
(***************************************************************************)
custom_expiry_minutes == 10

DefaultTtl == custom_expiry_minutes * 60 * 1000

NoDoc     == [envelope |-> FALSE, value |-> <<>>, expiry |-> 0]
Absent    == [t |-> "absent", doc |-> NoDoc]
Garbage   == [t |-> "garbage", doc |-> NoDoc]

Envelope(value, expiry) == [envelope |-> TRUE, value |-> value, expiry |-> expiry]
LegacyArray(value)      == [envelope |-> FALSE, value |-> value, expiry |-> 0]

\* JSON.stringify(doc) and JSON.parse(text); parsing other text throws
JSONstringify(doc) == [t |-> "json", doc |-> doc]
JSONparses(text)   == text.t = "json"
JSONparse(text)    == text.doc

\* a setStoredWithExpiry that leaves the lifetime out of the expiry
setStoredWithExpiry_noTtl(store, key, value, ttl, t) ==
    [store EXCEPT ![key] = JSONstringify(Envelope(value, t))]

\* setStoredWithExpiry(key, value, ttl) at time t: the storage afterwards
setStoredWithExpiry(store, key, value, ttl, t) ==
    [store EXCEPT ![key] = JSONstringify(Envelope(value, t + ttl))]

\* a getStoredWithExpiry whose entries expire at the expiry instant (>=)
getStoredWithExpiry_expiresAt(store, key, t) ==
    LET itemStr == store[key]
    IN  IF itemStr.t = "absent"
        THEN [isNull |-> TRUE, value |-> <<>>, store |-> store]
        ELSE IF ~JSONparses(itemStr)
        THEN [isNull |-> TRUE, value |-> <<>>, store |-> store]
        ELSE LET item == JSONparse(itemStr)
             IN  IF item.envelope
                 THEN IF t >= item.expiry
                      THEN [isNull |-> TRUE, value |-> <<>>,
                            store |-> [store EXCEPT ![key] = Absent]]
                      ELSE [isNull |-> FALSE, value |-> item.value, store |-> store]
                 ELSE [isNull |-> FALSE, value |-> item.value,
                       store |-> setStoredWithExpiry(store, key, item.value, DefaultTtl, t)]

\* getStoredWithExpiry(key) at time t: the value returned (isNull for null)
\* and the storage afterwards
getStoredWithExpiry(store, key, t) ==
    LET itemStr == store[key]
    IN  IF itemStr.t = "absent"
        THEN [isNull |-> TRUE, value |-> <<>>, store |-> store]
        ELSE IF ~JSONparses(itemStr)
        THEN [isNull |-> TRUE, value |-> <<>>, store |-> store]
        ELSE LET item == JSONparse(itemStr)
             IN  IF item.envelope
                 THEN IF t > item.expiry
                      THEN [isNull |-> TRUE, value |-> <<>>,
                            store |-> [store EXCEPT ![key] = Absent]]
                      ELSE [isNull |-> FALSE, value |-> item.value, store |-> store]
                 ELSE [isNull |-> FALSE, value |-> item.value,
                       store |-> setStoredWithExpiry(store, key, item.value, DefaultTtl, t)]

(***************************************************************************)
(* useChart(csvData, selectedKit, selectedCsv) as RadarChart.vue calls it. *)
(***************************************************************************)
Undefined == "undefined"

\* the arguments of the call useChart(currentCsvData) in RadarChart.vue
useChartArgs ==
    [csvData |-> "currentCsvData", selectedKit |-> Undefined, selectedCsv |-> Undefined]

Kits == {"002", "004"}
Csvs == {"m6A", "m5C", "psi"}

\* the template string `selectedModels_${kit}_${csv}`
KeyOf(kit, csv) == <<"selectedModels", kit, csv>>
Keys == {KeyOf(k, c) : k \in Kits, c \in Csvs}

\* the computed storageKey, read where a watcher runs: reading .value of an
\* argument that was not passed throws a TypeError
storageKey(args, kit, csv) ==
    IF args.selectedKit = Undefined THEN [t |-> "throws", key |-> <<>>]
    ELSE IF kit = Null THEN [t |-> "null", key |-> <<>>]
    ELSE IF args.selectedCsv = Undefined THEN [t |-> "throws", key |-> <<>>]
    ELSE IF csv = Null THEN [t |-> "null", key |-> <<>>]
    ELSE [t |-> "key", key |-> KeyOf(kit, csv)]

\* watch(selectedModels): the storage after the watcher has run at time t;
\* a watcher that throws is ended by Vue's error handler and writes nothing
watchSelectedModels(store, key, newModels, t) ==
    IF key.t = "key" THEN setStoredWithExpiry(store, key.key, newModels, DefaultTtl, t)
    ELSE store

\* watch(baseDatasets): selectedModels and storage after the watcher (and the
\* selectedModels watcher it triggers) have run; set is FALSE when
\* selectedModels was not assigned
watchBaseDatasets(newLabels, key, store, models, t) ==
    IF Len(newLabels) = 0 THEN [set |-> FALSE, models |-> models, store |-> store]
    ELSE IF key.t = "throws" THEN [set |-> FALSE, models |-> models, store |-> store]
    ELSE LET saved == IF key.t = "key" THEN getStoredWithExpiry(store, key.key, t)
                      ELSE [isNull |-> TRUE, value |-> <<>>, store |-> store]
             validModels == IF saved.isNull THEN <<>>
                            ELSE filterIn(saved.value, ToSet(newLabels))
             chosen == IF Len(validModels) > 0 THEN validModels ELSE newLabels
         IN  [set |-> TRUE, models |-> chosen,
              store |-> watchSelectedModels(saved.store, key, chosen, t)]

(***************************************************************************)
(* Spec: the RadarChart view.  The radio groups set selectedKit and        *)
(* selectedCsv, currentCsvData follows them, the check boxes and the two   *)
(* buttons change selectedModels, and the clock advances.                  *)
(***************************************************************************)
MaxTicks == 3
TickMs   == DefaultTtl \div 2

\* the table behind each kit and modification; 004/m5C has none
TableFor(kit, csv) ==
    IF kit = "002" THEN (IF csv = "m6A" THEN "A" ELSE IF csv = "m5C" THEN "B" ELSE "C")
    ELSE (IF csv = "m6A" THEN "B" ELSE IF csv = "m5C" THEN Null ELSE "A")

\* currentCsvData.value for the kit and modification selected
currentCsvData(kit, csv) ==
    IF TableFor(kit, csv) = Null THEN NoData
    ELSE [kit |-> kit, csv |-> csv, table |-> TableFor(kit, csv)]

\* what an earlier visit may have left in localStorage under one key
LeftoverStrings ==
    { JSONstringify(Envelope(<<"m2">>, DefaultTtl)),
      JSONstringify(Envelope(<<>>, DefaultTtl)),
      JSONstringify(LegacyArray(<<"m4", "m9">>)),
      Garbage }

InitialStorages ==
    {[k \in Keys |-> Absent]}
      \cup {[k \in Keys |-> IF k = key THEN str ELSE Absent] :
                key \in Keys, str \in LeftoverStrings}

Init ==
    /\ selectedKit = "002"
    /\ selectedCsv = "m6A"
    /\ csvData = NoData
    /\ modelNames = <<>>
    /\ selectedModels = <<>>
    /\ storage \in InitialStorages
    /\ now = 0
    /\ WrapIdle
    /\ PlaceIdle
    /\ CallIdle /\ RankIdle /\ ColorIdle /\ ImageIdle

CurrentKey == storageKey(useChartArgs, selectedKit, selectedCsv)

\* radio button of another kit
SelectKit ==
    /\ \E kit \in Kits \ {selectedKit} : selectedKit' = kit
    /\ UNCHANGED <<selectedCsv, csvData, modelNames, selectedModels, storage, now>>
    /\ UNCHANGED <<wrapVars, placeVars, callVars, rankVars, colorVars, imageVars>>

\* radio button of another modification
SelectCsv ==
    /\ \E csv \in Csvs \ {selectedCsv} : selectedCsv' = csv
    /\ UNCHANGED <<selectedKit, csvData, modelNames, selectedModels, storage, now>>
    /\ UNCHANGED <<wrapVars, placeVars, callVars, rankVars, colorVars, imageVars>>

\* currentCsvData changes: baseDatasets is recomputed (setting modelNames
\* unless csvData is null) and its watcher resolves the selection
CsvDataChanges ==
    /\ csvData # currentCsvData(selectedKit, selectedCsv)
    /\ csvData' = currentCsvData(selectedKit, selectedCsv)
    /\ modelNames' = IF csvData' = NoData THEN modelNames
                      ELSE sortedModelNames(csvData'.table)
    /\ LET after == watchBaseDatasets(datasetLabels(csvData'), CurrentKey,
                                      storage, selectedModels, now)
       IN  /\ selectedModels' = after.models
           /\ storage' = after.store
    /\ UNCHANGED <<selectedKit, selectedCsv, now>>
    /\ UNCHANGED <<wrapVars, placeVars, callVars, rankVars, colorVars, imageVars>>

\* a check box of the tool list (v-model on the array selectedModels)
ToggleModel ==
    /\ \E name \in ToSet(modelNames) :
          selectedModels' = IF name \in ToSet(selectedModels)
                            THEN filterIn(selectedModels, ToSet(selectedModels) \ {name})
                            ELSE Append(selectedModels, name)
    /\ storage' = watchSelectedModels(storage, CurrentKey, selectedModels', now)
    /\ UNCHANGED <<selectedKit, selectedCsv, csvData, modelNames, now>>
    /\ UNCHANGED <<wrapVars, placeVars, callVars, rankVars, colorVars, imageVars>>

\* button "All", disabled while modelNames is empty
selectAllModels ==
    /\ Len(modelNames) > 0
    /\ selectedModels' = modelNames
    /\ storage' = watchSelectedModels(storage, CurrentKey, selectedModels', now)
    /\ UNCHANGED <<selectedKit, selectedCsv, csvData, modelNames, now>>
    /\ UNCHANGED <<wrapVars, placeVars, callVars, rankVars, colorVars, imageVars>>

\* button "Clear", disabled while modelNames is empty
clearAllModels ==
    /\ Len(modelNames) > 0
    /\ selectedModels' = <<>>
    /\ storage' = watchSelectedModels(storage, CurrentKey, selectedModels', now)
    /\ UNCHANGED <<selectedKit, selectedCsv, csvData, modelNames, now>>
    /\ UNCHANGED <<wrapVars, placeVars, callVars, rankVars, colorVars, imageVars>>

\* time passes
Tick ==
    /\ now < MaxTicks * TickMs
    /\ now' = now + TickMs
    /\ UNCHANGED <<selectedKit, selectedCsv, csvData, modelNames, selectedModels, storage>>
    /\ UNCHANGED <<wrapVars, placeVars, callVars, rankVars, colorVars, imageVars>>

Next ==
    \/ SelectKit
    \/ SelectCsv
    \/ CsvDataChanges
    \/ ToggleModel
    \/ selectAllModels
    \/ clearAllModels
    \/ Tick

Spec == Init /\ [][Next]_vars

\* ---- vocabulary of the selection claims ----
\* the ranked entity names of the table shown; none without a table
RankedNames(data) == ToSet(datasetLabels(data))

\* the selection persisted under (kit, csv) that a read at time t accepts
PersistedSelection(store, kit, csv, t) ==
    LET str == store[KeyOf(kit, csv)]
    IN  IF str.t # "json" THEN {}
        ELSE IF str.doc.envelope /\ t > str.doc.expiry THEN {}
        ELSE ToSet(str.doc.value)

\* the selection a table change must produce
ResolvedSelection(store, kit, csv, t, data) ==
    LET kept == PersistedSelection(store, kit, csv, t) \cap RankedNames(data)
    IN  IF kept = {} THEN RankedNames(data) ELSE kept

\* C8: in every state reachable by table changes (also to a table without
\* rankable entities or to no table), check box toggles, select-all and clear,
\* the selection is a subset of the current table's ranked entity names.
C8_SelectionWithinTable == ToSet(selectedModels) \subseteq RankedNames(csvData)

\* C9: on every table change the new selection is the unexpired selection
\* persisted under the current kit + table key intersected with the new
\* table's entity names, or all entity names of the new table when that
\* intersection is empty.
C9_SelectionResolvedOnTableChange ==
    [][csvData' # csvData =>
          ToSet(selectedModels') =
              ResolvedSelection(storage, selectedKit, selectedCsv, now, csvData')]_vars

\* C10: every selection mutation is written to storage under the compound key
\* of the current kit and table with expiry = write time + 10 minutes, and no
\* other key is written.
C10_MutationPersistedUnderOwnKey ==
    [][selectedModels' # selectedModels =>
          /\ storage'[KeyOf(selectedKit, selectedCsv)] =
                 JSONstringify(Envelope(selectedModels', now + 10 * 60 * 1000))
          /\ \A key \in Keys \ {KeyOf(selectedKit, selectedCsv)} :
                 storage'[key] = storage[key]]_vars

(***************************************************************************)
(* SpecStorage: storage.js called directly.  Two keys hold what an earlier *)
(* visit left; setStoredWithExpiry and getStoredWithExpiry are called with *)
(* bounded values and lifetimes while the clock advances.                  *)
(***************************************************************************)
StoreKeys == {KeyOf("002", "m6A"), KeyOf("004", "psi")}

StoredValues == {<<>>, <<"m1">>, <<"m2", "m1">>}

\* lifetimes passed as ttl; the last one is the default of the parameter
Ttls == {0, TickMs, DefaultTtl}

NoCall  == [op |-> "none", key |-> <<>>, at |-> 0, isNull |-> TRUE, value |-> <<>>,
            before |-> Absent, after |-> Absent]
NoWrite == [written |-> FALSE, by |-> "none", value |-> <<>>, ttl |-> 0, at |-> 0]

\* what the two keys may hold before the first call
StoredStrings == LeftoverStrings \cup {Absent, JSONstringify(LegacyArray(<<>>))}

InitStorage ==
    /\ storage \in [StoreKeys -> StoredStrings]
    /\ now = 0
    /\ call = NoCall
    /\ lastWrite = [k \in StoreKeys |-> NoWrite]
    /\ ViewIdle
    /\ WrapIdle /\ PlaceIdle /\ RankIdle /\ ColorIdle /\ ImageIdle

\* setStoredWithExpiry(key, value, ttl)
SetCall ==
    /\ \E key \in StoreKeys, value \in StoredValues, ttl \in Ttls :
          /\ storage' = setStoredWithExpiry(storage, key, value, ttl, now)
          /\ call' = [op |-> "set", key |-> key, at |-> now, isNull |-> FALSE,
                      value |-> value, before |-> storage[key], after |-> storage'[key]]
          /\ lastWrite' = [lastWrite EXCEPT ![key] =
                              [written |-> TRUE, by |-> "set", value |-> value,
                               ttl |-> ttl, at |-> now]]
    /\ UNCHANGED <<now, selectedKit, selectedCsv, csvData, modelNames, selectedModels>>
    /\ UNCHANGED <<wrapVars, placeVars, rankVars, colorVars, imageVars>>

\* getStoredWithExpiry(key); migrating a legacy entry is a write of
\* setStoredWithExpiry(key, item) with the default lifetime
GetCall ==
    /\ \E key \in StoreKeys :
          LET r == getStoredWithExpiry(storage, key, now)
              migrates == JSONparses(storage[key]) /\ ~JSONparse(storage[key]).envelope
          IN  /\ storage' = r.store
              /\ call' = [op |-> "get", key |-> key, at |-> now, isNull |-> r.isNull,
                          value |-> r.value, before |-> storage[key], after |-> r.store[key]]
              /\ lastWrite' = IF migrates
                                THEN [lastWrite EXCEPT ![key] =
                                        [written |-> TRUE, by |-> "migrate",
                                         value |-> JSONparse(storage[key]).value,
                                         ttl |-> DefaultTtl, at |-> now]]
                                ELSE lastWrite
    /\ UNCHANGED <<now, selectedKit, selectedCsv, csvData, modelNames, selectedModels>>
    /\ UNCHANGED <<wrapVars, placeVars, rankVars, colorVars, imageVars>>

\* the clock advances
ClockTick ==
    /\ now < MaxTicks * TickMs
    /\ now' = now + TickMs
    /\ UNCHANGED <<storage, call, lastWrite>>
    /\ UNCHANGED <<selectedKit, selectedCsv, csvData, modelNames, selectedModels>>
    /\ UNCHANGED <<wrapVars, placeVars, rankVars, colorVars, imageVars>>

NextStorage == SetCall \/ GetCall \/ ClockTick

SpecStorage == InitStorage /\ [][NextStorage]_vars

\* ---- vocabulary of the storage claims ----
\* the last call was a read of a key written before by setStoredWithExpiry
ReadOfWritten == call.op = "get" /\ lastWrite[call.key].written

\* C11 as stated: for every key, value and ttl >= 0, after
\* setStoredWithExpiry(k, v, ttl) at time t0 and no later write to k, a read at
\* clock t0 returns v, and a read at clock >= t0 + ttl returns null and
\* leaves the key removed.
C11_ReadAfterWrite ==
    ReadOfWritten =>
        LET w == lastWrite[call.key]
        IN  /\ call.at = w.at => (~call.isNull /\ call.value = w.value)
            /\ call.at >= w.at + w.ttl => (call.isNull /\ call.after = Absent)

\* C11 amended: the same, with null returned and the key removed when the
\* clock is strictly past t0 + ttl.
C11_ReadAfterWriteStrict ==
    ReadOfWritten =>
        LET w == lastWrite[call.key]
        IN  /\ call.at = w.at => (~call.isNull /\ call.value = w.value)
            /\ call.at > w.at + w.ttl => (call.isNull /\ call.after = Absent)

\* a read that found the written entry expired and removed it
C11_Witness ==
    /\ ReadOfWritten
    /\ call.at > lastWrite[call.key].at + lastWrite[call.key].ttl
    /\ call.before = JSONstringify(Envelope(lastWrite[call.key].value,
                                            lastWrite[call.key].at + lastWrite[call.key].ttl))
    /\ call.isNull /\ call.after = Absent

(***************************************************************************)
(* SpecRank: the ranking of baseDatasets applied to bounded tables.  A     *)
(* table is a sequence of rows with distinct names (the keys of sortData   *)
(* in encounter order); scores are in tenths.                              *)
(***************************************************************************)
MaxRows == 3

RankNames == {"m1", "m2", "m3", "Max", "Minimap"}

ScoreRows ==
    { <<Num(10), NaN, Num(5)>>,
      <<Num(2), Num(3), Num(4)>>,
      <<Num(5), Num(10), Num(0)>>,
      <<NaN, NaN, NaN>> }

SortDatas ==
    UNION { { rows \in [1..n -> {Row(name, values) : name \in RankNames, values \in ScoreRows}] :
                \A i, j \in 1..n : i # j => rows[i].name # rows[j].name }
            : n \in 0..MaxRows }

InitRank ==
    /\ sortData \in SortDatas
    /\ ranked = <<>>
    /\ rankPc = "ready"
    /\ WrapIdle /\ PlaceIdle /\ ChartIdle /\ CallIdle /\ ColorIdle /\ ImageIdle

\* baseDatasets is evaluated for the table
EvaluateBaseDatasets ==
    /\ rankPc = "ready"
    /\ ranked' = sortedModelNamesOf(sortData)
    /\ rankPc' = "done"
    /\ UNCHANGED <<sortData, wrapVars, placeVars, chartVars, callVars, colorVars, imageVars>>

NextRank == EvaluateBaseDatasets

SpecRank == InitRank /\ [][NextRank]_vars

\* ---- vocabulary of the ranking claim ----
RowIndex(name) == CHOOSE i \in 1..Len(sortData) : sortData[i].name = name

\* sum of the scores of an entity, missing/NaN cells counted as 0
Aggregate(name) ==
    LET values == sortData[RowIndex(name)].values
        cell(k) == IF values[k].nan THEN 0 ELSE values[k].v
    IN  cell(1) + cell(2) + cell(3)

RankableNames ==
    {sortData[i].name : i \in {k \in 1..Len(sortData) : ~includesMaxOrMin(sortData[k].name)}}

\* C12: the ranked list contains exactly the table's entities whose name
\* contains neither "Max" nor "Min", each once, ordered by descending aggregate
\* score (missing/NaN cells counted as 0), entities of equal aggregate in
\* their encounter order; m1 = [1, NA, 0.5], m2 = [0.2, 0.3, 0.4] rank as
\* [m1, m2].
C12_RankedByAggregate ==
    rankPc = "done" =>
        /\ ToSet(ranked) = RankableNames
        /\ Len(ranked) = Cardinality(RankableNames)
        /\ \A i, j \in 1..Len(ranked) :
              i < j => \/ Aggregate(ranked[i]) > Aggregate(ranked[j])
                       \/ /\ Aggregate(ranked[i]) = Aggregate(ranked[j])
                          /\ RowIndex(ranked[i]) < RowIndex(ranked[j])
        /\ sortData = << Row("m1", <<Num(10), NaN, Num(5)>>),
                         Row("m2", <<Num(2), Num(3), Num(4)>>) >>
              => ranked = <<"m1", "m2">>

\* a ranked table with an excluded row, a NaN cell and two entities of equal
\* aggregate, the later one in the table ranked second
C12_Witness ==
    /\ rankPc = "done"
    /\ Len(ranked) = 2 /\ Len(sortData) = 3
    /\ Aggregate(ranked[1]) = Aggregate(ranked[2])
    /\ sortData[RowIndex(ranked[1])].values[2].nan

(***************************************************************************)
(* SpecImages: the icon cache.  A table change preloads the icons of its   *)
(* labels, the browser completes or fails each load, and Chart.js runs     *)
(* afterDraw passes over the labels of the chart.  A cached Image is       *)
(* modelled by its state: "none" (no entry), "loading", "loaded" or        *)
(* "broken" (the load failed).                                             *)
(***************************************************************************)
MaxLabels == 2

\* label.toLowerCase()
toLowerCase(str) == [i \in 1..Len(str) |-> IF str[i] = "A" THEN "a" ELSE str[i]]

\* .replace(/\s+/g, '')
RECURSIVE removeWhitespace(_)
removeWhitespace(str) ==
    IF Len(str) = 0 THEN <<>>
    ELSE IF str[1] = SP THEN removeWhitespace(Tail(str))
    ELSE <<str[1]>> \o removeWhitespace(Tail(str))

getIconUrl(label) == removeWhitespace(toLowerCase(label)) \o <<".png">>

\* axis labels: "Ab", "a b" and "ab" share an icon, "b" has its own
IconLabels == { <<"A", "b">>, <<"a", SP, "b">>, <<"a", "b">>, <<"b">> }

IconUrls == {getIconUrl(label) : label \in IconLabels}

\* csvData.labels of the tables
LabelLists == UNION { [1..n -> IconLabels] : n \in 0..MaxLabels }

\* img.complete: true once the image is fully available, and also when the
\* load has failed
complete(img) == img \in {"loaded", "broken"}

\* ctx.drawImage(img, ...) throws InvalidStateError for a broken image
drawImageThrows(img) == img = "broken"

\* a preloadImages that loads again an icon whose load has failed
RECURSIVE preloadImages_retryBroken(_, _, _)
preloadImages_retryBroken(cache, started, labels) ==
    IF Len(labels) = 0 THEN [cache |-> cache, started |-> started, again |-> {}]
    ELSE LET imageSrc == getIconUrl(labels[1])
         IN  IF cache[imageSrc] \in {"none", "broken"}
             THEN preloadImages_retryBroken([cache EXCEPT ![imageSrc] = "loading"],
                                            [started EXCEPT ![imageSrc] = @ + 1],
                                            Tail(labels))
             ELSE LET rest == preloadImages_retryBroken(cache, started, Tail(labels))
                  IN  [rest EXCEPT !.again = @ \cup {imageSrc}]

\* preloadImages(labels): the cache and the loads started afterwards, and
\* the URLs that were found cached (again)
RECURSIVE preloadImages(_, _, _)
preloadImages(cache, started, labels) ==
    IF Len(labels) = 0 THEN [cache |-> cache, started |-> started, again |-> {}]
    ELSE LET imageSrc == getIconUrl(labels[1])
         IN  IF cache[imageSrc] = "none"
             THEN preloadImages([cache EXCEPT ![imageSrc] = "loading"],
                                [started EXCEPT ![imageSrc] = @ + 1],
                                Tail(labels))
             ELSE LET rest == preloadImages(cache, started, Tail(labels))
                  IN  [rest EXCEPT !.again = @ \cup {imageSrc}]

\* chartLabels of chartData: [] without datasets, else the first label
\* followed by the others reversed
chartLabelsOf(originalLabels, hasDatasets) ==
    IF ~hasDatasets \/ Len(originalLabels) = 0 THEN <<>>
    ELSE LET n == Len(originalLabels)
         IN  [i \in 1..n |-> IF i = 1 THEN originalLabels[1] ELSE originalLabels[n + 2 - i]]

\* chart.data.labels.forEach of afterDraw from label index on: the indices
\* whose icon was drawn, and whether drawImage threw and ended the pass
RECURSIVE drawLabels(_, _, _, _)
drawLabels(labels, index, positioned, cache) ==
    IF index > Len(labels) THEN [drawn |-> {}, error |-> FALSE]
    ELSE IF index \notin positioned THEN drawLabels(labels, index + 1, positioned, cache)
    ELSE LET img == cache[getIconUrl(labels[index])]
         IN  IF img = "none" \/ ~complete(img)
             THEN drawLabels(labels, index + 1, positioned, cache)
             ELSE IF drawImageThrows(img) THEN [drawn |-> {}, error |-> TRUE]
             ELSE LET rest == drawLabels(labels, index + 1, positioned, cache)
                  IN  [drawn |-> {index} \cup rest.drawn, error |-> rest.error]

NoDraw == [ran |-> FALSE, positioned |-> {}, drawn |-> {}, error |-> FALSE]

InitImages ==
    /\ chartLabels = <<>>
    /\ imageCache = [u \in IconUrls |-> "none"]
    /\ loadsStarted = [u \in IconUrls |-> 0]
    /\ seenAgain = {}
    /\ lastDraw = NoDraw
    /\ WrapIdle /\ PlaceIdle /\ ChartIdle /\ CallIdle /\ RankIdle /\ ColorIdle

\* watch(csvData): a table with labels arrives, its icons are preloaded and
\* chartData follows
WatchCsvData ==
    /\ \E labels \in LabelLists, hasDatasets \in BOOLEAN :
          LET r == preloadImages(imageCache, loadsStarted, labels)
          IN  /\ imageCache' = r.cache
              /\ loadsStarted' = r.started
              /\ seenAgain' = seenAgain \cup r.again
              /\ chartLabels' = chartLabelsOf(labels, hasDatasets)
    /\ lastDraw' = NoDraw
    /\ UNCHANGED <<wrapVars, placeVars, chartVars, callVars, rankVars, colorVars>>

\* the browser finishes a load; img.onload and its timer store the same
\* Image again
ImageLoads ==
    /\ \E u \in IconUrls :
          /\ imageCache[u] = "loading"
          /\ imageCache' = [imageCache EXCEPT ![u] = "loaded"]
    /\ lastDraw' = NoDraw
    /\ UNCHANGED <<chartLabels, loadsStarted, seenAgain>>
    /\ UNCHANGED <<wrapVars, placeVars, chartVars, callVars, rankVars, colorVars>>

\* a load fails; img.onerror logs
ImageFails ==
    /\ \E u \in IconUrls :
          /\ imageCache[u] = "loading"
          /\ imageCache' = [imageCache EXCEPT ![u] = "broken"]
    /\ lastDraw' = NoDraw
    /\ UNCHANGED <<chartLabels, loadsStarted, seenAgain>>
    /\ UNCHANGED <<wrapVars, placeVars, chartVars, callVars, rankVars, colorVars>>

\* afterDraw(chart); positioned are the label indices that have an entry in
\* r._pointLabelItems
AfterDraw ==
    /\ \E positioned \in SUBSET (1..Len(chartLabels)) :
          LET r == drawLabels(chartLabels, 1, positioned, imageCache)
          IN  lastDraw' = [ran |-> TRUE, positioned |-> positioned,
                           drawn |-> r.drawn, error |-> r.error]
    /\ UNCHANGED <<chartLabels, imageCache, loadsStarted, seenAgain>>
    /\ UNCHANGED <<wrapVars, placeVars, chartVars, callVars, rankVars, colorVars>>

NextImages == WatchCsvData \/ ImageLoads \/ ImageFails \/ AfterDraw

SpecImages == InitImages /\ [][NextImages]_vars

\* ---- vocabulary of the icon claims ----
\* the state of the icon of the label at an index of the chart
IconOf(index) == imageCache[getIconUrl(chartLabels[index])]

\* C13: in every draw pass, for every axis label with a label position, the
\* icon is drawn if and only if its image has finished loading successfully
\* before the pass; a label whose image is absent, still loading or failed
\* gets no icon and the pass raises no error (so a label is drawn by the
\* first pass that runs after its load has completed).
C13_IconDrawnIffLoaded ==
    lastDraw.ran =>
        /\ ~lastDraw.error
        /\ \A index \in lastDraw.positioned :
              index \in lastDraw.drawn <=> IconOf(index) = "loaded"

\* C17: over any sequence of table changes and load completions or failures,
\* an entry once added to the image cache is never removed and at most one
\* load is ever started per icon URL: a URL seen again is not reloaded, also
\* after its load failed.
C17_OneLoadPerUrlEntryKept ==
    \A u \in IconUrls :
        /\ loadsStarted[u] <= 1
        /\ loadsStarted[u] = 1 => imageCache[u] # "none"

\* an icon whose load failed was met again by preloadImages and not reloaded
C17_Witness ==
    \E u \in IconUrls :
        u \in seenAgain /\ imageCache[u] = "broken" /\ loadsStarted[u] = 1

(***************************************************************************)
(* chartConfig.js.  A colour is the triple of the string hsl(h, s%, l%); a *)
(* hex colour is its three bytes.                                          *)
(***************************************************************************)
\* Math.round(p / q) for p >= 0, q > 0
RoundDiv(p, q) == (2 * p + q) \div (2 * q)

Max3(a, b, c) == Max(a, Max(b, c))
Min3(a, b, c) == Min(a, Min(b, c))

\* hexToHsl(hex) on the bytes <<r, g, b>>, in exact arithmetic
hexToHsl(hex) ==
    LET r == hex[1]
        g == hex[2]
        b == hex[3]
        max == Max3(r, g, b)
        min == Min3(r, g, b)
        d == max - min
        l == RoundDiv(100 * (max + min), 510)
    IN  IF max = min THEN [h |-> 0, s |-> 0, l |-> l]
        ELSE [h |-> IF max = r THEN RoundDiv(60 * (g - b) + (IF g < b THEN 360 * d ELSE 0), d)
                    ELSE IF max = g THEN RoundDiv(60 * (b - r) + 120 * d, d)
                    ELSE RoundDiv(60 * (r - g) + 240 * d, d),
              s |-> IF max + min > 255 THEN RoundDiv(100 * d, 510 - max - min)
                    ELSE RoundDiv(100 * d, max + min),
              l |-> l]

modelColorMap ==
    "m6Anet" :> hexToHsl(<<46, 55, 146>>) @@
    "m6Anet-retrain" :> hexToHsl(<<46, 55, 146>>) @@
    "EpiNano" :> hexToHsl(<<142, 90, 162>>) @@
    "EpiNano-retrain" :> hexToHsl(<<142, 90, 162>>) @@
    "SingleMod" :> hexToHsl(<<246, 195, 101>>) @@
    "SingleMod-retrain" :> hexToHsl(<<246, 195, 101>>) @@
    "NanoSPA" :> hexToHsl(<<188, 25, 50>>) @@
    "NanoSPA-retrain" :> hexToHsl(<<188, 25, 50>>) @@
    "TandemMod" :> hexToHsl(<<157, 203, 98>>) @@
    "TandemMod-retrain" :> hexToHsl(<<157, 203, 98>>) @@
    "Dinopore" :> hexToHsl(<<244, 181, 202>>) @@
    "Dinopore-retrain" :> hexToHsl(<<244, 181, 202>>) @@
    "Nanom6A" :> hexToHsl(<<9, 136, 137>>) @@
    "ELIGOS" :> hexToHsl(<<204, 168, 20>>) @@
    "ELIGOS_diff" :> hexToHsl(<<197, 120, 26>>) @@
    "MINES" :> hexToHsl(<<123, 82, 35>>) @@
    "Epinano_delta" :> hexToHsl(<<200, 150, 200>>) @@
    "CHEUI" :> hexToHsl(<<106, 185, 60>>) @@
    "Tombo" :> hexToHsl(<<87, 33, 123>>) @@
    "Tombo_com" :> hexToHsl(<<184, 35, 115>>) @@
    "DiffErr" :> hexToHsl(<<207, 226, 152>>) @@
    "DRUMMER" :> hexToHsl(<<210, 90, 156>>) @@
    "xPore" :> hexToHsl(<<93, 150, 208>>) @@
    "Nanocompore" :> hexToHsl(<<150, 150, 150>>) @@
    "DENA" :> hexToHsl(<<168, 214, 179>>) @@
    "m6Aiso" :> hexToHsl(<<241, 136, 26>>) @@
    "pum6A" :> hexToHsl(<<18, 154, 191>>) @@
    "NanoMUD" :> hexToHsl(<<120, 134, 47>>) @@
    "NanoRMS" :> hexToHsl(<<75, 75, 75>>) @@
    "PsiNanopore" :> hexToHsl(<<42, 101, 176>>) @@
    "Xron" :> hexToHsl(<<106, 255, 185>>) @@
    "Dorado" :> hexToHsl(<<239, 31, 255>>)

\* the entries of modelColorMap that are no retrained variant of another
BaseNames ==
    {N \in DOMAIN modelColorMap :
        \A M \in DOMAIN modelColorMap : N # M \o "-retrain"}

\* generateColors(n, modelNames)
generateColors(n, names) ==
    [k \in 1..n |->
        IF names[k] \in DOMAIN modelColorMap THEN modelColorMap[names[k]]
        ELSE [h |-> RoundDiv(360 * (k - 1), n), s |-> 70, l |-> 60]]

(***************************************************************************)
(* SpecColors: generateColors applied to bounded name lists.               *)
(***************************************************************************)
MaxNames == 3

ColorNamePool ==
    {"m6Anet", "m6Anet-retrain", "Nanom6A", "Nanom6A-retrain", "Dorado-retrain", "NewTool"}

InitColors ==
    /\ colorNames \in UNION { [1..n -> ColorNamePool] : n \in 0..MaxNames }
    /\ colors = <<>>
    /\ colorPc = "ready"
    /\ WrapIdle /\ PlaceIdle /\ ChartIdle /\ CallIdle /\ RankIdle /\ ImageIdle

\* generateColors(sortedModelNames.length, sortedModelNames)
GenerateColors ==
    /\ colorPc = "ready"
    /\ colors' = generateColors(Len(colorNames), colorNames)
    /\ colorPc' = "done"
    /\ UNCHANGED <<colorNames, wrapVars, placeVars, chartVars, callVars, rankVars, imageVars>>

NextColors == GenerateColors

SpecColors == InitColors /\ [][NextColors]_vars

\* C16: for every base model name N in the preset colour table,
\* generateColors gives N + "-retrain" the colour of N, whatever its position
\* in the name list and whatever the length of the list.
C16_RetrainSharesBaseColour ==
    colorPc = "done" =>
        \A k \in 1..Len(colorNames) : \A N \in BaseNames :
            colorNames[k] = N \o "-retrain" => colors[k] = modelColorMap[N]

\* the string read by the last call was JSON text of a legacy entry
ReadOfLegacy ==
    call.op = "get" /\ JSONparses(call.before) /\ ~JSONparse(call.before).envelope

\* the last call read a key whose last write was the migration of a legacy
\* entry, not later than the expiry that migration set
ReadOfMigrated ==
    /\ call.op = "get"
    /\ lastWrite[call.key].by = "migrate"
    /\ call.at <= lastWrite[call.key].at + 10 * 60 * 1000

\* C14: when the stored string parses as JSON but is no {value, expiry}
\* envelope, getStoredWithExpiry returns the parsed legacy value and leaves
\* storage holding that value in an envelope whose expiry is the read time
\* + 10 minutes; later reads return the same value until that expiry.
C14_LegacyReadMigrates ==
    /\ ReadOfLegacy =>
          /\ ~call.isNull
          /\ call.value = JSONparse(call.before).value
          /\ call.after = JSONstringify(Envelope(JSONparse(call.before).value,
                                                 call.at + 10 * 60 * 1000))
    /\ ReadOfMigrated =>
          /\ ~call.isNull
          /\ call.value = lastWrite[call.key].value

\* a read at the expiry instant of a migrated legacy entry returns its value
C14_Witness ==
    /\ ReadOfMigrated
    /\ call.at = lastWrite[call.key].at + 10 * 60 * 1000
    /\ call.value = <<"m4", "m9">>

\* C15: when the stored string under the key of the current kit and table is
\* not parseable, getStoredWithExpiry returns null without an error reaching
\* the caller, so a table change resolves the selection to all entities of
\* the new table.
C15_UnparseableFallsBackToAll ==
    [][(/\ csvData' # csvData
        /\ storage[KeyOf(selectedKit, selectedCsv)] = Garbage
        /\ Len(datasetLabels(csvData')) > 0)
          => selectedModels' = datasetLabels(csvData')]_vars

\* C18: for every non-empty label, maxWidth and maxLines, joining the lines
\* returned by wrapLabel with single spaces yields the label exactly: no word
\* is dropped, duplicated, reordered or split inside.
C18_JoinedLinesAreLabel ==
    (WrapDone /\ Len(inLabel) > 0) => LinesJoinToLabel

\* a label of three words returned in more than one line
C18_Witness ==
    WrapDone /\ Len(InWords) = 3 /\ Len(outLines) >= 2

====
